---- MODULE Spec2Model ----
(***************************************************************************)
(* A model of the POST handler of src/app/api/route.ts: a paginating,      *)
(* filtering CSV reader in front of a Redis cache.                         *)
(*                                                                         *)
(* Text is modelled as a sequence of one-character strings, so that        *)
(* endsWith, toLowerCase, includes, trim and the template literals that    *)
(* build the cache keys are computed character by character.               *)
(*                                                                         *)
(* A request body carries a string url and filter and an integer page and  *)
(* limit, each of them present or absent.  Every await of the handler is a *)
(* step of its own, so requests interleave there, and every cache or       *)
(* network operation may throw.                                            *)
(***************************************************************************)
EXTENDS Integers, Sequences, FiniteSets, TLC

(***************************************************************************)
(* Bounds of the model.                                                    *)
(***************************************************************************)
\* Largest number of data rows of a remote CSV file.
MaxRows == 5
\* Largest page number a request carries.
MaxPage == 3
\* Requests carry every limit in -1..MaxLimit, and the two limits around
\* the maximum page size.
MaxLimit == 3
\* Number of requests that may be in flight at the same time.
NumReq == 2

(***************************************************************************)
(* Configuration constants (./utils/constants and ../utils/constants):     *)
(* route.ts imports them, their values are the model's.                    *)
(***************************************************************************)
DEFAULT_PAGE_SIZES == <<5, 10>>
MANDATORY_HEADERS == {<<"i", "d">>, <<"n", "a", "m", "e">>}

(***************************************************************************)
(* Text.                                                                   *)
(***************************************************************************)
\* String.prototype.endsWith
EndsWith(s, suffix) ==
    /\ Len(s) >= Len(suffix)
    /\ SubSeq(s, Len(s) - Len(suffix) + 1, Len(s)) = suffix

LowerChar(c) ==
    CASE c = "A" -> "a"
      [] c = "B" -> "b"
      [] c = "C" -> "c"
      [] c = "S" -> "s"
      [] c = "V" -> "v"
      [] OTHER -> c

\* String.prototype.toLowerCase
ToLowerCase(s) == [i \in 1..Len(s) |-> LowerChar(s[i])]

\* String.prototype.includes
Includes(s, sub) ==
    \E i \in 0..(Len(s) - Len(sub)) : SubSeq(s, i + 1, i + Len(sub)) = sub

RECURSIVE TrimLeft(_)
TrimLeft(s) == IF s # <<>> /\ Head(s) = " " THEN TrimLeft(Tail(s)) ELSE s

RECURSIVE TrimRight(_)
TrimRight(s) ==
    IF s # <<>> /\ s[Len(s)] = " " THEN TrimRight(SubSeq(s, 1, Len(s) - 1)) ELSE s

\* the parser's trim option
Trim(s) == TrimRight(TrimLeft(s))

Digit(d) == <<"0", "1", "2", "3", "4", "5", "6", "7", "8", "9">>[d + 1]

RECURSIVE NatText(_)
NatText(n) == IF n < 10 THEN <<Digit(n)>> ELSE NatText(n \div 10) \o <<Digit(n % 10)>>

\* a number inside a template literal
NumText(n) == IF n < 0 THEN <<"-">> \o NatText(0 - n) ELSE NatText(n)

(***************************************************************************)
(* Remote CSV files.  A file is the text of an HTTP response body, kept as *)
(* its lines (each a sequence of fields), its line terminator and whether  *)
(* the last line is terminated.  A file with no line is the empty body.    *)
(***************************************************************************)
LF == "\n"
CR == "\r"

Names == << <<"a">>, <<" ", "A", "b">>, <<"c">> >>

\* the i-th data row of the files of the model: an id and a name
DataRow(i) == <<NumText(i), Names[((i - 1) % 3) + 1]>>

GoodHeader == << <<"i", "d">>, <<"n", "a", "m", "e">> >>
\* a header row without the mandatory header "name"
BadHeader == << <<"i", "d">>, <<"x">> >>

MkFile(header, n, eol, trailing) ==
    [lines |-> <<header>> \o [i \in 1..n |-> DataRow(i)],
     eol |-> eol, trailing |-> trailing]

EmptyFile == [lines |-> <<>>, eol |-> LF, trailing |-> FALSE]

\* a file whose third data row has one field only
RaggedFile ==
    [lines |-> <<GoodHeader, DataRow(1), DataRow(2), <<NumText(3)>>, DataRow(4)>>,
     eol |-> LF, trailing |-> TRUE]

Files ==
    {MkFile(GoodHeader, n, LF, t) : n \in 0..MaxRows, t \in BOOLEAN}
        \cup {MkFile(BadHeader, n, LF, TRUE) : n \in 0..MaxRows}
        \cup {MkFile(GoodHeader, n, CR, FALSE) : n \in 1..2}
        \cup {EmptyFile, RaggedFile}

\* the data rows of a file: its lines but the header row
DataRows(file) == IF file.lines = <<>> THEN <<>> ELSE Tail(file.lines)

\* SplitLength counting the lines that hold a row: no empty last piece
\* after a final line terminator
SplitLengthOfRows(file) ==
    IF file.eol # LF THEN 1
    ELSE IF file.lines = <<>> THEN 1 ELSE Len(file.lines)

\* csvString.split("\n").length: one more than the number of "\n" in the body
SplitLength(file) ==
    IF file.eol # LF THEN 1
    ELSE 1 + (IF file.lines = <<>> THEN 0 ELSE Len(file.lines) - 1)
           + (IF file.trailing THEN 1 ELSE 0)

(***************************************************************************)
(* The csv-parse Parser with the options of the handler: columns, trim,    *)
(* from, to and on_record.  The parser takes the first line for the column *)
(* names, numbers the records after it from 1, counts a record before it   *)
(* hands it to on_record, and finds the line terminator by itself.         *)
(***************************************************************************)
\* columns: true -- a record is an object keyed by the (trimmed) header row
Record(header, row) ==
    [k \in {Trim(header[i]) : i \in 1..Len(header)} |->
        LET last == CHOOSE i \in 1..Len(header) :
                        /\ Trim(header[i]) = k
                        /\ \A j \in (i + 1)..Len(header) : Trim(header[j]) # k
        IN  Trim(row[last])]

\* `!filter`: the filter is absent or the empty string
NoFilter(body) == "filter" \notin DOMAIN body \/ body.filter = <<>>

\* on_record: keep a record when no filter is given or some value contains it
OnRecord(body, record) ==
    \/ NoFilter(body)
    \/ \E k \in DOMAIN record :
          Includes(ToLowerCase(record[k]), ToLowerCase(body.filter))

\* the record numbers the parser hands to on_record: it counts records from
\* 1, emits those numbered from `from` on and stops after record `to`
Emitted(from, to, n) == {i \in 1..n : i >= from /\ i <= to}

\* the parser reads rows up to record `to`; a row whose field count is not
\* the header's makes it throw
ParseThrows(file, to) ==
    \E i \in 1..Len(DataRows(file)) :
        /\ i <= to
        /\ Len(DataRows(file)[i]) # Len(file.lines[1])

RECURSIVE Collect(_, _, _, _)
\* records.push(record) for every record the parser yields, rows i..n
Collect(body, file, idx, i) ==
    IF i > Len(DataRows(file)) THEN <<>>
    ELSE LET record == Record(file.lines[1], DataRows(file)[i])
             rest == Collect(body, file, idx, i + 1)
         IN  IF i \in idx /\ OnRecord(body, record)
             THEN <<record>> \o rest
             ELSE rest

Parse(body, file, from, to) ==
    Collect(body, file, Emitted(from, to, Len(DataRows(file))), 1)

(***************************************************************************)
(* Requests.  A request body is the JSON object POST reads: a function     *)
(* whose domain holds the fields the caller sent.                          *)
(***************************************************************************)
CsvUrl == <<"a", ".", "c", "s", "v">>

\* the text of undefined inside a template literal
Undefined == <<"u", "n", "d", "e", "f", "i", "n", "e", "d">>

UrlInputs == {<<>>, CsvUrl, <<"a", ".", "C", "S", "V">>}

FilterInputs == {<<>>, <<"B">>, Undefined}

PageInputs == (-1)..MaxPage

MaxPageSize == DEFAULT_PAGE_SIZES[Len(DEFAULT_PAGE_SIZES)]

LimitInputs == (-1)..MaxLimit \cup {MaxPageSize, MaxPageSize + 1}

Field(name, values) == {<<>>} \cup {name :> v : v \in values}

Bodies ==
    {u @@ f @@ p @@ l :
        u \in Field("url", UrlInputs), f \in Field("filter", FilterInputs),
        p \in Field("page", PageInputs), l \in Field("limit", LimitInputs)}

\* const { url, filter, page = 1, limit = 10 } = await req.json()
Page(body) == IF "page" \in DOMAIN body THEN body.page ELSE 1
Limit(body) == IF "limit" \in DOMAIN body THEN body.limit ELSE 10

\* the text of `filter` inside a template literal
FilterText(body) ==
    IF "filter" \in DOMAIN body THEN body.filter ELSE Undefined

\* ValidationError with `limit < 0` as the only lower check of the limit
ValidationErrorZeroLimit(body) ==
    IF "url" \notin DOMAIN body \/ body.url = <<>>
        THEN "url is required"
    ELSE IF ~EndsWith(body.url, <<".", "c", "s", "v">>)
        THEN "url should be a link to csv file"
    ELSE IF Limit(body) < 0
        THEN "limit is required and should be greater than 0"
    ELSE IF Limit(body) > MaxPageSize
        THEN "limit is required and should be greater than 0"
    ELSE IF Page(body) < 1
        THEN "page is required and should be greater than 0"
    ELSE ""

\* the validation rules of POST in the order of the code: the message of the
\* first rule violated, or "" when the request is valid
ValidationError(body) ==
    IF "url" \notin DOMAIN body \/ body.url = <<>>
        THEN "url is required"
    ELSE IF ~EndsWith(body.url, <<".", "c", "s", "v">>)
        THEN "url should be a link to csv file"
    ELSE IF Limit(body) = 0 \/ Limit(body) < 0
        THEN "limit is required and should be greater than 0"
    ELSE IF Limit(body) = 0 \/ Limit(body) > MaxPageSize
        THEN "limit is required and should be greater than 0"
    ELSE IF Page(body) < 1
        THEN "page is required and should be greater than 0"
    ELSE ""

\* `${url}-${page}-${limit}-${filter}`
ResponseKey(body) ==
    body.url \o <<"-">> \o NumText(Page(body)) \o <<"-">> \o NumText(Limit(body))
        \o <<"-">> \o FilterText(body)

\* `${url}-total`
TotalKey(body) == body.url \o <<"-", "t", "o", "t", "a", "l">>

\* from and to, the parser's options
From(body) == (Page(body) - 1) * Limit(body)
To(body) == From(body) + Limit(body)

\* totalNoOfLines % limit === 0 ? totalNoOfLines / limit
\*                              : Math.floor(totalNoOfLines / limit) + 1
PageCount(total, limit) ==
    IF total % limit = 0 THEN total \div limit ELSE (total \div limit) + 1

\* the texts the cache holds: Number.prototype.toString and JSON.stringify
\* write them, parseInt and JSON.parse read them
NumberToString(n) == [text |-> "number", value |-> NumText(n)]
JSONStringify(data) == [text |-> "json", value |-> data]
DigitValue(c) == CHOOSE d \in 0..9 : Digit(d) = c

RECURSIVE DigitsValue(_)
DigitsValue(t) ==
    IF t = <<>> THEN 0
    ELSE DigitsValue(SubSeq(t, 1, Len(t) - 1)) * 10 + DigitValue(t[Len(t)])

ParseInt(s) ==
    IF Head(s.value) = "-" THEN 0 - DigitsValue(Tail(s.value))
    ELSE DigitsValue(s.value)
JSONParse(s) == s.value

\* NextResponse.json(body, {status, headers})
ErrorResponse(status, message) ==
    [status |-> status, body |-> [error |-> message], headers |-> TRUE]

(***************************************************************************)
(* State.                                                                  *)
(***************************************************************************)
Reqs == 1..NumReq

RemoteUrls == {CsvUrl}

VARIABLES
    remote,          \* the file each url serves at this moment
    cache,           \* the Redis store: a function from the keys it holds
    pc,              \* where each request is: the await it is suspended at
    body,            \* the JSON body of each request
    totalNoOfLines,  \* the local variable of POST
    responseData,    \* the local variable of POST
    response,        \* what POST returned
    io,              \* history: the cache and network operations of a request
    lastOk,          \* history: the last PageResult returned for a request
                     \* whose cache entry has not expired since
    promised,        \* history: lastOk of the request, when it was issued
    age,             \* the keys of the store, the one set longest ago first
    conn,            \* the Redis client of each request
    expired,         \* history: the page keys whose entry has expired, not
                     \* looked up since
    renewing         \* history: the requests that were the first to look
                     \* their page key up since its entry expired

vars == <<remote, cache, pc, body, totalNoOfLines, responseData, response, io,
          lastOk, promised, age, conn, expired, renewing>>

\* no client yet; new Redis(...); redisCachingService.disconnect()
NoClient == [state |-> "none", disconnects |-> 0]
NewClient == [state |-> "open", disconnects |-> 0]
Disconnected(client) == [state |-> "closed", disconnects |-> client.disconnects + 1]

\* redis.set(key, value, "EX", CACHE_EXPIRY_SECONDS): the value and a new
\* time to live, the same for every key
SetEx(key, value) ==
    /\ cache' = [k \in DOMAIN cache \cup {key} |-> IF k = key THEN value ELSE cache[k]]
    /\ age' = SelectSeq(age, LAMBDA k : k # key) \o <<key>>

NoIo == [get |-> 0, set |-> 0, whole |-> 0, stream |-> 0, parse |-> 0, threw |-> 0]
NoResponse == [status |-> 0]
NoData == [results |-> <<>>, pageCount |-> 0]

\* the four dimensions of a request
Dims(b) ==
    [url |-> b.url, page |-> Page(b), limit |-> Limit(b),
     filter |-> IF "filter" \in DOMAIN b THEN <<b.filter>> ELSE <<>>]

\* history: request r has done the operations ops, and one of them threw
Counted(r, ops, threw) ==
    [io EXCEPT ![r] = [o \in DOMAIN io[r] |->
                          IF o \in ops THEN io[r][o] + 1
                          ELSE IF o = "threw" /\ threw THEN 1
                          ELSE io[r][o]]]

Count(r, ops) == io' = Counted(r, ops, FALSE)

\* Return with the disconnect as the last statement of the try block in the
\* place of the finally block: a request that throws keeps its client
ReturnInTry(r, resp) ==
    /\ response' = [response EXCEPT ![r] = resp]
    /\ pc' = [pc EXCEPT ![r] = "done"]
    /\ lastOk' = IF resp.status = 200
                 THEN [d \in DOMAIN lastOk \cup {Dims(body[r])} |->
                          IF d = Dims(body[r]) THEN resp.body ELSE lastOk[d]]
                 ELSE lastOk
    /\ conn' = [conn EXCEPT ![r] = IF resp.status = 500 THEN @ ELSE Disconnected(@)]

\* return ...; finally { redisCachingService.disconnect() }
Return(r, resp) ==
    /\ response' = [response EXCEPT ![r] = resp]
    /\ pc' = [pc EXCEPT ![r] = "done"]
    /\ lastOk' = IF resp.status = 200
                 THEN [d \in DOMAIN lastOk \cup {Dims(body[r])} |->
                          IF d = Dims(body[r]) THEN resp.body ELSE lastOk[d]]
                 ELSE lastOk
    /\ conn' = [conn EXCEPT ![r] = Disconnected(@)]

\* Throw answering with the records collected so far beside the error
ThrowPartial(r, ops, message) ==
    /\ Return(r, [status |-> 500,
                  body |-> [error |-> message, results |-> responseData[r].results],
                  headers |-> TRUE])
    /\ io' = Counted(r, ops, TRUE)

\* catch (error) { return 500 }: one of the operations ops of r has thrown
Throw(r, ops, message) ==
    /\ Return(r, ErrorResponse(500, message))
    /\ io' = Counted(r, ops, TRUE)

InitWith(files) ==
    /\ remote \in [RemoteUrls -> files]
    /\ cache = <<>>
    /\ pc = [r \in Reqs |-> "idle"]
    /\ body = [r \in Reqs |-> <<>>]
    /\ totalNoOfLines = [r \in Reqs |-> 0]
    /\ responseData = [r \in Reqs |-> NoData]
    /\ response = [r \in Reqs |-> NoResponse]
    /\ io = [r \in Reqs |-> NoIo]
    /\ lastOk = <<>>
    /\ promised = [r \in Reqs |-> <<>>]
    /\ age = <<>>
    /\ conn = [r \in Reqs |-> NoClient]
    /\ expired = {}
    /\ renewing = {}

(***************************************************************************)
(* POST, one action per stretch of code between two awaits.                *)
(***************************************************************************)
\* Post asking the cache for the page before it validates the body
PostLooksUpFirst(r, b) ==
    /\ pc[r] = "idle"
    /\ body' = [body EXCEPT ![r] = b]
    /\ totalNoOfLines' = [totalNoOfLines EXCEPT ![r] = 0]
    /\ responseData' = [responseData EXCEPT ![r] = NoData]
    /\ io' = [io EXCEPT ![r] = [NoIo EXCEPT !.get = 1]]
    /\ IF ValidationError(b) # ""
       THEN /\ response' = [response EXCEPT ![r] = ErrorResponse(400, ValidationError(b))]
            /\ pc' = [pc EXCEPT ![r] = "done"]
            /\ promised' = [promised EXCEPT ![r] = <<>>]
            /\ conn' = [conn EXCEPT ![r] = Disconnected(NewClient)]
       ELSE /\ response' = [response EXCEPT ![r] = NoResponse]
            /\ pc' = [pc EXCEPT ![r] = "getPage"]
            /\ promised' = [promised EXCEPT ![r] =
                              IF Dims(b) \in DOMAIN lastOk THEN <<lastOk[Dims(b)]>> ELSE <<>>]
            /\ conn' = [conn EXCEPT ![r] = NewClient]
    /\ UNCHANGED <<remote, cache, lastOk, age, expired, renewing>>

\* lines 13-89: read the body, validate it, ask the cache for the page
Post(r, b) ==
    /\ pc[r] = "idle"
    /\ body' = [body EXCEPT ![r] = b]
    /\ totalNoOfLines' = [totalNoOfLines EXCEPT ![r] = 0]
    /\ responseData' = [responseData EXCEPT ![r] = NoData]
    /\ io' = [io EXCEPT ![r] = NoIo]
    /\ IF ValidationError(b) # ""
       THEN /\ response' = [response EXCEPT ![r] = ErrorResponse(400, ValidationError(b))]
            /\ pc' = [pc EXCEPT ![r] = "done"]
            /\ promised' = [promised EXCEPT ![r] = <<>>]
            /\ conn' = [conn EXCEPT ![r] = Disconnected(NewClient)]
       ELSE /\ response' = [response EXCEPT ![r] = NoResponse]
            /\ pc' = [pc EXCEPT ![r] = "getPage"]
            /\ promised' = [promised EXCEPT ![r] =
                              IF Dims(b) \in DOMAIN lastOk THEN <<lastOk[Dims(b)]>> ELSE <<>>]
            /\ conn' = [conn EXCEPT ![r] = NewClient]
    /\ UNCHANGED <<remote, cache, lastOk, age, expired, renewing>>

\* history: r is the first to look its page key up since the entry expired
LookedUp(r) ==
    /\ expired' = expired \ {ResponseKey(body[r])}
    /\ renewing' = IF ResponseKey(body[r]) \in expired
                   THEN renewing \cup {r} ELSE renewing

\* lines 89-98: the answer of redis.get(responseKey)
GetPage(r) ==
    /\ pc[r] = "getPage"
    /\ \/ /\ Throw(r, {"get"}, "cache get failed")
          /\ UNCHANGED <<expired, renewing>>
       \/ /\ ResponseKey(body[r]) \in DOMAIN cache
          /\ Count(r, {"get"})
          /\ Return(r, [status |-> 200,
                        body |-> JSONParse(cache[ResponseKey(body[r])]),
                        headers |-> TRUE])
          /\ LookedUp(r)
       \/ /\ ResponseKey(body[r]) \notin DOMAIN cache
          /\ Count(r, {"get"})
          /\ pc' = [pc EXCEPT ![r] = "getTotal"]
          /\ LookedUp(r)
          /\ UNCHANGED <<response, lastOk, conn>>
    /\ UNCHANGED <<remote, cache, age, body, totalNoOfLines, responseData, promised>>

\* GetTotal counting the lines anew whatever the cache holds: the cached
\* total is read but the whole-body GET is done all the same
GetTotalRefetches(r) ==
    /\ pc[r] = "getTotal"
    /\ \/ /\ Throw(r, {"get"}, "cache get failed")
          /\ UNCHANGED totalNoOfLines
       \/ /\ Count(r, {"get"})
          /\ pc' = [pc EXCEPT ![r] = "fetchAll"]
          /\ UNCHANGED <<totalNoOfLines, response, lastOk, conn>>
    /\ UNCHANGED <<remote, cache, age, body, responseData, promised, expired, renewing>>

\* lines 98-102 and 113-137: the answer of redis.get(totalKey)
GetTotal(r) ==
    /\ pc[r] = "getTotal"
    /\ \/ /\ Throw(r, {"get"}, "cache get failed")
          /\ UNCHANGED totalNoOfLines
       \/ /\ TotalKey(body[r]) \in DOMAIN cache
          /\ Count(r, {"get"})
          /\ totalNoOfLines' =
                [totalNoOfLines EXCEPT ![r] = ParseInt(cache[TotalKey(body[r])])]
          /\ pc' = [pc EXCEPT ![r] = "stream"]
          /\ UNCHANGED <<response, lastOk, conn>>
       \/ /\ TotalKey(body[r]) \notin DOMAIN cache
          /\ Count(r, {"get"})
          /\ pc' = [pc EXCEPT ![r] = "fetchAll"]
          /\ UNCHANGED <<totalNoOfLines, response, lastOk, conn>>
    /\ UNCHANGED <<remote, cache, age, body, responseData, promised, expired, renewing>>

\* lines 102-110: the answer of Axios.get(url)
FetchAll(r) ==
    /\ pc[r] = "fetchAll"
    /\ \/ /\ Throw(r, {"whole"}, "request failed")
          /\ UNCHANGED totalNoOfLines
       \/ /\ Count(r, {"whole"})
          /\ totalNoOfLines' =
                [totalNoOfLines EXCEPT ![r] = SplitLength(remote[body[r].url]) - 1]
          /\ pc' = [pc EXCEPT ![r] = "setTotal"]
          /\ UNCHANGED <<response, lastOk, conn>>
    /\ UNCHANGED <<remote, cache, age, body, responseData, promised, expired, renewing>>

\* SetTotal caching the length of the split, the header line counted in,
\* while the request goes on with the length less one
SetTotalSplitLength(r) ==
    /\ pc[r] = "setTotal"
    /\ \/ /\ Throw(r, {"set"}, "cache set failed")
          /\ UNCHANGED <<cache, age>>
       \/ /\ Count(r, {"set"})
          /\ SetEx(TotalKey(body[r]), NumberToString(totalNoOfLines[r] + 1))
          /\ pc' = [pc EXCEPT ![r] = "stream"]
          /\ UNCHANGED <<response, lastOk, conn>>
    /\ UNCHANGED <<remote, body, totalNoOfLines, responseData, promised, expired, renewing>>

\* lines 105-137: redis.set(totalKey, ...) is done
SetTotal(r) ==
    /\ pc[r] = "setTotal"
    /\ \/ /\ Throw(r, {"set"}, "cache set failed")
          /\ UNCHANGED <<cache, age>>
       \/ /\ Count(r, {"set"})
          /\ SetEx(TotalKey(body[r]), NumberToString(totalNoOfLines[r]))
          /\ pc' = [pc EXCEPT ![r] = "stream"]
          /\ UNCHANGED <<response, lastOk, conn>>
    /\ UNCHANGED <<remote, body, totalNoOfLines, responseData, promised, expired, renewing>>

\* Classify without the check for zero records: an empty page is a page
ClassifyEmptyPage(records) ==
    IF Len(records) > 0
          /\ ~(\A header \in MANDATORY_HEADERS : header \in DOMAIN records[1])
        THEN <<400, "Mandatory headers are missing">>
    ELSE <<200, "">>

\* Classify with MANDATORY_HEADERS.some in the place of MANDATORY_HEADERS.every
ClassifySome(records) ==
    IF Len(records) = 0
        THEN <<404, "No records found">>
    ELSE IF ~(\E header \in MANDATORY_HEADERS : header \in DOMAIN records[1])
        THEN <<400, "Mandatory headers are missing">>
    ELSE <<200, "">>

\* lines 147-174: what POST makes of the records it collected: "" when they
\* are a page to return, or the status and the message of the error
Classify(records) ==
    IF Len(records) = 0
        THEN <<404, "No records found">>
    ELSE IF ~(\A header \in MANDATORY_HEADERS : header \in DOMAIN records[1])
        THEN <<400, "Mandatory headers are missing">>
    ELSE <<200, "">>

\* lines 137-184: the answer of Axios.get(url, {responseType: "stream"}), the
\* parse of the stream, and the classification of what was collected
Stream(r) ==
    /\ pc[r] = "stream"
    /\ LET file == remote[body[r].url]
           records == Parse(body[r], file, From(body[r]), To(body[r]))
       IN  \/ /\ Throw(r, {"stream"}, "request failed")
              /\ UNCHANGED responseData
           \/ /\ ParseThrows(file, To(body[r]))
              /\ Throw(r, {"stream", "parse"}, "Invalid Record Length")
              /\ UNCHANGED responseData
           \/ /\ ~ParseThrows(file, To(body[r]))
              /\ Count(r, {"stream", "parse"})
              /\ IF Classify(records)[1] # 200
                 THEN /\ Return(r, ErrorResponse(Classify(records)[1], Classify(records)[2]))
                      /\ UNCHANGED responseData
                 ELSE /\ responseData' =
                            [responseData EXCEPT ![r] =
                                [results |-> records,
                                 pageCount |-> PageCount(totalNoOfLines[r], Limit(body[r]))]]
                      /\ pc' = [pc EXCEPT ![r] = "setPage"]
                      /\ UNCHANGED <<response, lastOk, conn>>
    /\ UNCHANGED <<remote, cache, age, body, totalNoOfLines, promised, expired, renewing>>

\* lines 184-191: redis.set(responseKey, ...) is done
SetPage(r) ==
    /\ pc[r] = "setPage"
    /\ \/ /\ Throw(r, {"set"}, "cache set failed")
          /\ UNCHANGED <<cache, age>>
       \/ /\ Count(r, {"set"})
          /\ SetEx(ResponseKey(body[r]), JSONStringify(responseData[r]))
          /\ Return(r, [status |-> 200, body |-> responseData[r], headers |-> FALSE])
    /\ UNCHANGED <<remote, body, totalNoOfLines, responseData, promised, expired, renewing>>

\* the caller has its response: the request and its local variables are gone
Forget(r) ==
    /\ pc[r] = "done"
    /\ pc' = [pc EXCEPT ![r] = "idle"]
    /\ body' = [body EXCEPT ![r] = <<>>]
    /\ totalNoOfLines' = [totalNoOfLines EXCEPT ![r] = 0]
    /\ responseData' = [responseData EXCEPT ![r] = NoData]
    /\ response' = [response EXCEPT ![r] = NoResponse]
    /\ io' = [io EXCEPT ![r] = NoIo]
    /\ promised' = [promised EXCEPT ![r] = <<>>]
    /\ conn' = [conn EXCEPT ![r] = NoClient]
    /\ renewing' = renewing \ {r}
    /\ UNCHANGED <<remote, cache, lastOk, age, expired>>

(***************************************************************************)
(* The environment.                                                        *)
(***************************************************************************)
\* the store drops key k: its EX time is over.  Every key is set with the
\* same time to live, so the key set longest ago is the first to go
Expire(k) ==
    /\ k \in DOMAIN cache
    /\ k = Head(age)
    /\ age' = Tail(age)
    /\ cache' = [j \in DOMAIN cache \ {k} |-> cache[j]]
    /\ lastOk' = [d \in {e \in DOMAIN lastOk :
                            e.url \o <<"-">> \o NumText(e.page) \o <<"-">>
                                \o NumText(e.limit) \o <<"-">>
                                \o (IF e.filter = <<>> THEN Undefined ELSE e.filter[1])
                                # k} |-> lastOk[d]]
    /\ promised' = [r \in Reqs |->
                       IF pc[r] = "getPage" /\ ResponseKey(body[r]) = k
                       THEN <<>> ELSE promised[r]]
    /\ expired' = IF cache[k].text = "json" THEN expired \cup {k} ELSE expired
    /\ UNCHANGED <<remote, pc, body, totalNoOfLines, responseData, response, io, conn,
                   renewing>>

\* the owner of url u replaces the file
ChangeRemote(u, file) ==
    /\ remote[u] # file
    /\ remote' = [remote EXCEPT ![u] = file]
    /\ UNCHANGED <<cache, pc, body, totalNoOfLines, responseData, response, io,
                   lastOk, promised, age, conn, expired, renewing>>

(***************************************************************************)
(* SpecOne: one request against any file, the cache empty.                 *)
(***************************************************************************)
InitOne == InitWith(Files)

NextOne ==
    \/ \E b \in Bodies : Post(1, b)
    \/ GetPage(1)
    \/ GetTotal(1)
    \/ FetchAll(1)
    \/ SetTotal(1)
    \/ Stream(1)
    \/ SetPage(1)

SpecOne == InitOne /\ [][NextOne]_vars

(***************************************************************************)
(* Spec: requests in flight together, one after another on each of the     *)
(* NumReq connections, while the remote file is replaced; no entry lives   *)
(* long enough to expire.                                                  *)
(***************************************************************************)
SharedBodies ==
    {[url |-> CsvUrl, limit |-> 2],
     [url |-> CsvUrl, limit |-> 2, page |-> 2],
     [url |-> CsvUrl, limit |-> 2, filter |-> Undefined],
     [url |-> CsvUrl, limit |-> 0]}

SharedFiles ==
    {MkFile(GoodHeader, 0, LF, FALSE),
     MkFile(GoodHeader, 3, LF, TRUE)}

Init == InitWith(SharedFiles)

Next ==
    \/ \E r \in Reqs, b \in SharedBodies : Post(r, b)
    \/ \E r \in Reqs : GetPage(r)
    \/ \E r \in Reqs : GetTotal(r)
    \/ \E r \in Reqs : FetchAll(r)
    \/ \E r \in Reqs : SetTotal(r)
    \/ \E r \in Reqs : Stream(r)
    \/ \E r \in Reqs : SetPage(r)
    \/ \E r \in Reqs : Forget(r)
    \/ \E u \in RemoteUrls, file \in SharedFiles : ChangeRemote(u, file)

Spec == Init /\ [][Next]_vars

(***************************************************************************)
(* SpecTtl: requests one after another, while cache entries expire and the *)
(* remote file is replaced.                                                *)
(***************************************************************************)
TtlBodies ==
    {[url |-> CsvUrl, limit |-> 2],
     [url |-> CsvUrl, limit |-> 2, page |-> 2],
     [url |-> CsvUrl, limit |-> 1, page |-> 3, filter |-> <<"B">>]}

TtlFiles == SharedFiles \cup {MkFile(BadHeader, 1, LF, TRUE)}

InitTtl == InitWith(TtlFiles)

NextTtl ==
    \/ \E b \in TtlBodies : Post(1, b)
    \/ GetPage(1)
    \/ GetTotal(1)
    \/ FetchAll(1)
    \/ SetTotal(1)
    \/ Stream(1)
    \/ SetPage(1)
    \/ Forget(1)
    \/ \E k \in DOMAIN cache : Expire(k)
    \/ \E u \in RemoteUrls, file \in TtlFiles : ChangeRemote(u, file)

SpecTtl == InitTtl /\ [][NextTtl]_vars

(***************************************************************************)
(* SpecSame: NumReq requests with one and the same body in flight          *)
(* together, the cache empty at first and the remote file never replaced,  *)
(* while cache entries expire.                                             *)
(***************************************************************************)
SameBodies == {b \in Bodies : ValidationError(b) = "" /\ Limit(b) <= MaxLimit}

InitSame == InitWith(Files)

NextSame ==
    \/ \E r \in Reqs, b \in SameBodies :
            /\ \A q \in Reqs : pc[q] # "idle" => body[q] = b
            /\ Post(r, b)
    \/ \E r \in Reqs : GetPage(r)
    \/ \E r \in Reqs : GetTotal(r)
    \/ \E r \in Reqs : FetchAll(r)
    \/ \E r \in Reqs : SetTotal(r)
    \/ \E r \in Reqs : Stream(r)
    \/ \E r \in Reqs : SetPage(r)
    \/ \E k \in DOMAIN cache : Expire(k)

SpecSame == InitSame /\ [][NextSame]_vars

(***************************************************************************)
(* What the claims speak of.                                               *)
(***************************************************************************)
\* request r has its response
Done(r) == pc[r] = "done"

\* request r got a page: a 200 response
Ok(r) == Done(r) /\ response[r].status = 200

Min(a, b) == IF a < b THEN a ELSE b

\* the data rows with 0-based index i, (P-1)*L <= i < min(P*L, N), as records
Window(file, P, L) ==
    LET N == Len(DataRows(file))
        first == (P - 1) * L
        last == Min(P * L, N)
    IN  [j \in 1..(last - first) |-> Record(file.lines[1], DataRows(file)[first + j])]

\* C1: without a filter and with the cache empty, a 200 response carries
\* exactly the data rows of the window of its page, in file order.
C1_Windowing ==
    \A r \in Reqs :
        Ok(r) /\ NoFilter(body[r])
            => response[r].body.results
                   = Window(remote[body[r].url], Page(body[r]), Limit(body[r]))

\* C2: a 200 response carries at least one record and at most `limit`.
C2_ResultsWithinLimit ==
    \A r \in Reqs :
        Ok(r) => /\ Len(response[r].body.results) >= 1
                 /\ Len(response[r].body.results) <= Limit(body[r])

\* the integer ceiling of n / l
Ceiling(n, l) == (n + l - 1) \div l

\* C5: with the cache empty, the pageCount of a 200 response is the ceiling
\* of (number of data rows of the file) / limit.
C5_PageCountOfDataRows ==
    \A r \in Reqs :
        Ok(r) => response[r].body.pageCount
                    = Ceiling(Len(DataRows(remote[body[r].url])), Limit(body[r]))

\* the rules of validation, as the claims state them
UrlMissing(b) == "url" \notin DOMAIN b \/ b.url = <<>>
BadSuffix(b) ==
    \/ Len(b.url) < 4
    \/ <<b.url[Len(b.url) - 3], b.url[Len(b.url) - 2], b.url[Len(b.url) - 1],
         b.url[Len(b.url)]>> # <<".", "c", "s", "v">>
BadLimit(b) == Limit(b) <= 0 \/ Limit(b) > MaxPageSize
BadPage(b) == Page(b) < 1
Invalid(b) == UrlMissing(b) \/ BadSuffix(b) \/ BadLimit(b) \/ BadPage(b)

\* request r was answered with this error
Rejected(r, status, message) ==
    /\ Done(r)
    /\ response[r].status = status
    /\ response[r].body = [error |-> message]

\* C7: a request that breaks a rule of validation gets a 400 response with
\* the message of the first rule it breaks, the rules taken in the order
\* url present, url suffix, limit, page.
C7_Validation ==
    \A r \in Reqs :
        pc[r] # "idle" =>
            IF UrlMissing(body[r])
                THEN Rejected(r, 400, "url is required")
            ELSE IF BadSuffix(body[r])
                THEN Rejected(r, 400, "url should be a link to csv file")
            ELSE IF BadLimit(body[r])
                THEN Rejected(r, 400, "limit is required and should be greater than 0")
            ELSE IF BadPage(body[r])
                THEN Rejected(r, 400, "page is required and should be greater than 0")
            ELSE TRUE

\* a request whose limit is over the maximum and whose page is 0 was
\* rejected for its limit
C7_Witness ==
    \E r \in Reqs :
        /\ Done(r)
        /\ ~UrlMissing(body[r]) /\ ~BadSuffix(body[r])
        /\ Limit(body[r]) > MaxPageSize /\ Page(body[r]) < 1
        /\ Rejected(r, 400, "limit is required and should be greater than 0")

\* C8: a request that fails validation does no cache get, no cache set and
\* no outbound GET, and leaves the cache as it was (empty).
C8_InvalidHasNoEffect ==
    \A r \in Reqs :
        pc[r] # "idle" /\ Invalid(body[r]) => io[r] = NoIo /\ cache = <<>>

\* a request with a valid url and limit and page 0 was rejected, having
\* done nothing
C8_Witness ==
    \E r \in Reqs :
        /\ Done(r)
        /\ ~UrlMissing(body[r]) /\ ~BadSuffix(body[r]) /\ ~BadLimit(body[r])
        /\ BadPage(body[r])
        /\ response[r].status = 400
        /\ io[r] = NoIo

\* the parse of request r ran to its end without throwing (the remote file
\* being the one it read)
Parsed(r) ==
    /\ Done(r)
    /\ io[r].parse = 1
    /\ ~ParseThrows(remote[body[r].url], To(body[r]))

\* the records the parse of request r collected
Collected(r) == Parse(body[r], remote[body[r].url], From(body[r]), To(body[r]))

HeaderMissing(records) == \E h \in MANDATORY_HEADERS : h \notin DOMAIN records[1]

\* C9 as claimed: after a page-cache miss, zero records give 404, a first
\* record without a mandatory header gives 400, anything else gives 200.
C9_ClassificationAsClaimed ==
    \A r \in Reqs :
        Parsed(r) =>
            IF Len(Collected(r)) = 0
                THEN Rejected(r, 404, "No records found")
            ELSE IF HeaderMissing(Collected(r))
                THEN Rejected(r, 400, "Mandatory headers are missing")
            ELSE response[r].status = 200

\* C9 as amended: ... anything else gives 200, or 500 when the cache set of
\* the page throws.
C9_Classification ==
    \A r \in Reqs :
        Parsed(r) =>
            IF Len(Collected(r)) = 0
                THEN Rejected(r, 404, "No records found")
            ELSE IF HeaderMissing(Collected(r))
                THEN Rejected(r, 400, "Mandatory headers are missing")
            ELSE \/ response[r].status = 200
                 \/ /\ response[r].status = 500
                    /\ io[r].threw = 1
                    /\ io[r].set >= 1

\* records of a file without the header "name" were collected, and the
\* request was rejected
C9_Witness ==
    \E r \in Reqs :
        /\ Parsed(r)
        /\ Len(Collected(r)) > 0
        /\ HeaderMissing(Collected(r))
        /\ Rejected(r, 400, "Mandatory headers are missing")

\* C10: a request one of whose operations threw ends with a 500 response
\* that holds an error message only, and no response other than a 200
\* carries records.
C10_FailureSemantics ==
    \A r \in Reqs :
        /\ io[r].threw = 1 =>
              /\ Done(r)
              /\ response[r].status = 500
              /\ DOMAIN response[r].body = {"error"}
        /\ Done(r) /\ response[r].status # 200 =>
              "results" \notin DOMAIN response[r].body

\* the cache set of a page that was fully computed threw
C10_Witness ==
    \E r \in Reqs :
        /\ Done(r)
        /\ io[r].threw = 1
        /\ responseData[r].results # <<>>
        /\ response[r].status = 500

\* C3: a request issued after the identical request returned a 200
\* PageResult, and looking the page up before that entry expires, returns
\* the same PageResult and does no outbound GET and no parse (a request
\* whose cache get throws is left aside).
C3_IdempotentThroughCache ==
    \A r \in Reqs :
        Done(r) /\ promised[r] # <<>> /\ io[r].threw = 0 =>
            /\ response[r].status = 200
            /\ response[r].body = promised[r][1]
            /\ io[r].whole = 0 /\ io[r].stream = 0 /\ io[r].parse = 0

\* C4: every record of a 200 response to a request with a non-empty filter
\* has a field whose lowercased value contains the lowercased filter.
C4_FilterCorrect ==
    \A r \in Reqs :
        Ok(r) /\ "filter" \in DOMAIN body[r] /\ body[r].filter # <<>> =>
            \A i \in 1..Len(response[r].body.results) :
                \E k \in DOMAIN response[r].body.results[i] :
                    Includes(ToLowerCase(response[r].body.results[i][k]),
                             ToLowerCase(body[r].filter))

\* C6: the pageCount of every 200 response is at least 1.
C6_PageCountPositive ==
    \A r \in Reqs : Ok(r) => response[r].body.pageCount >= 1

\* the positions at which a request has a cache get or set, a GET or a parse
\* still to issue
InFlight == {"getPage", "getTotal", "fetchAll", "setTotal", "stream", "setPage"}

\* C11: a request that opened a cache client has disconnected it exactly
\* once when it completes, whatever the exit (validation 400, cache hit, 404,
\* schema 400, 200, 500), and not before: as long as the request has a cache
\* get or set still to issue the client is open and was never disconnected.
C11_ScopedConnection ==
    \A r \in Reqs :
        /\ pc[r] = "idle" => conn[r] = NoClient
        /\ pc[r] \in InFlight => conn[r] = NewClient
        /\ pc[r] = "done" => conn[r] = Disconnected(NewClient)

\* a request ended in the catch block and another by the computed 200, each
\* with its client disconnected once
C11_Witness ==
    \E r, q \in Reqs :
        /\ Done(r) /\ response[r].status = 500 /\ io[r].threw = 1
        /\ Done(q) /\ response[q].status = 200 /\ io[q].set >= 1
        /\ conn[r].disconnects = 1 /\ conn[q].disconnects = 1

\* what a request with body b computes from the file when nothing is cached
FreshData(b, file) ==
    [results |-> Parse(b, file, From(b), To(b)),
     pageCount |-> PageCount(SplitLength(file) - 1, Limit(b))]

\* C12: once the page entry written by a successful request has expired, the
\* next identical request is not answered with a cached payload: its 200
\* comes after a streamed GET of its own, and the PageResult it builds is the
\* one of the remote file as it is at that time: the results are those of
\* the file at the streamed GET, and so is the pageCount unless the request
\* counted the lines itself, by a whole-body GET of its own; and no step of
\* a request removes an entry from the store.
C12_TtlExpiry ==
    [][/\ \A r \in renewing' :
            /\ pc'[r] = "done" /\ response'[r].status = 200 => io'[r].stream = 1
            /\ pc[r] = "stream" /\ pc'[r] = "setPage" =>
                    LET fresh == FreshData(body[r], remote[body[r].url])
                    IN  /\ responseData'[r].results = fresh.results
                        /\ io[r].whole = 0 =>
                                responseData'[r].pageCount = fresh.pageCount
       /\ (\E k \in DOMAIN cache : k \notin DOMAIN cache') => pc' = pc /\ io' = io
      ]_vars

\* C13: a request issues at most one whole-body GET and at most one
\* streamed GET, also after one of them failed, and the whole-body GET
\* before the streamed one; a request that finds its page in the cache
\* issues neither; a whole-body GET is issued only by a request that has
\* looked the total-line key up and not found it, so a request that finds
\* the total issues none, whatever its page, limit and filter.
C13_FetchBudget ==
    /\ [](\A r \in Reqs : io[r].whole <= 1 /\ io[r].stream <= 1)
    /\ [][\A r \in Reqs :
            /\ io'[r].whole > io[r].whole => io[r].stream = 0 /\ pc[r] = "fetchAll"
            /\ pc'[r] = "fetchAll" /\ pc[r] # "fetchAll" =>
                    pc[r] = "getTotal" /\ TotalKey(body[r]) \notin DOMAIN cache
            /\ pc[r] = "getPage" /\ pc'[r] # "getPage"
                    /\ ResponseKey(body[r]) \in DOMAIN cache =>
                    pc'[r] = "done" /\ io'[r].whole = 0 /\ io'[r].stream = 0
            /\ pc[r] = "getTotal" /\ pc'[r] # "getTotal"
                    /\ TotalKey(body[r]) \in DOMAIN cache =>
                    pc'[r] \in {"stream", "done"} /\ io'[r].whole = 0
      ]_vars

\* a request has taken the total from the cache and done its streamed GET
\* without a whole-body GET, while another has done both
C13_Witness ==
    \E r, q \in Reqs :
        /\ Ok(r) /\ io[r].get = 2 /\ io[r].whole = 0 /\ io[r].stream = 1
        /\ Ok(q) /\ io[q].whole = 1 /\ io[q].stream = 1

C15_WriteOnce ==
    [][\A r \in Reqs :
            io'[r].set = io[r].set + 1 /\ io'[r].threw = io[r].threw =>
                (IF pc[r] = "setTotal" THEN TotalKey(body[r]) ELSE ResponseKey(body[r]))
                    \notin DOMAIN cache
      ]_vars

\* C16: every response POST returns, whatever its status, carries the
\* default response headers.
C16_HeadersOnEveryResponse ==
    \A r \in Reqs : Done(r) => response[r].headers

\* the header row of the file names every mandatory header
HasMandatoryHeaders(file) ==
    /\ file.lines # <<>>
    /\ \A header \in MANDATORY_HEADERS :
            \E i \in 1..Len(file.lines[1]) : Trim(file.lines[1][i]) = header

\* C17: a valid request without a filter that finds nothing in the cache and
\* asks for a page past the data, (page-1)*limit >= N for the N data rows of
\* a file with the mandatory headers, N >= 1 when (page-1)*limit = N, is
\* answered 404 "No records found" and never 200 (a request one of whose
\* operations throws is left aside).
C17_PageBeyondData ==
    \A r \in Reqs :
        LET N == Len(DataRows(remote[body[r].url]))
        IN  /\ Done(r) /\ ValidationError(body[r]) = "" /\ io[r].threw = 0
            /\ NoFilter(body[r])
            /\ HasMandatoryHeaders(remote[body[r].url])
            /\ From(body[r]) >= N
            /\ From(body[r]) = N => N >= 1
            => Rejected(r, 404, "No records found")

\* the texts of a sequence, one after another with sep between them
RECURSIVE Join(_, _)
Join(texts, sep) ==
    IF texts = <<>> THEN <<>>
    ELSE IF Len(texts) = 1 THEN texts[1]
    ELSE texts[1] \o <<sep>> \o Join(Tail(texts), sep)

\* the body of the HTTP response that serves the file, character by character
FileText(file) ==
    Join([i \in 1..Len(file.lines) |-> Join(file.lines[i], ",")], file.eol)
        \o (IF file.trailing THEN <<file.eol>> ELSE <<>>)

\* the number of "\n"-delimited lines of a text
LineCount(text) == 1 + Cardinality({i \in 1..Len(text) : text[i] = LF})

\* C18: a request that misses the total-line key takes the number of
\* "\n"-delimited lines of the whole body less one for its total, writes the
\* text of that number under the total key before its streamed GET, and
\* computes its pageCount from it; a request that finds the key takes the
\* cached number as it is and writes nothing; and no later step of a
\* request, however it ends, touches the total entry.
C18_ResolveTotalCount ==
    [][\A r \in Reqs :
        /\ pc[r] = "fetchAll" /\ pc'[r] = "setTotal" =>
                totalNoOfLines'[r] = LineCount(FileText(remote[body[r].url])) - 1
        /\ pc[r] = "setTotal" /\ pc'[r] = "stream" =>
                /\ cache'[TotalKey(body[r])] = NumberToString(totalNoOfLines[r])
                /\ totalNoOfLines'[r] = totalNoOfLines[r]
                /\ io'[r].stream = 0
        /\ pc[r] = "getTotal" /\ pc'[r] = "stream" =>
                /\ NumberToString(totalNoOfLines'[r]) = cache[TotalKey(body[r])]
                /\ cache' = cache /\ age' = age /\ io'[r].set = 0
        /\ pc[r] = "stream" /\ pc'[r] = "setPage" =>
                responseData'[r].pageCount
                    = PageCount(totalNoOfLines[r], Limit(body[r]))
        /\ pc[r] \in {"stream", "setPage"} /\ pc'[r] # pc[r]
                /\ TotalKey(body[r]) \in DOMAIN cache =>
                /\ TotalKey(body[r]) \in DOMAIN cache'
                /\ cache'[TotalKey(body[r])] = cache[TotalKey(body[r])]
      ]_vars

\* a request counted the lines of the body, cached the total and ended in
\* 404: the total entry is in the store
C18_Witness ==
    \E r \in Reqs :
        /\ Rejected(r, 404, "No records found")
        /\ io[r].whole = 1 /\ io[r].set = 1
        /\ TotalKey(body[r]) \in DOMAIN cache
        /\ cache[TotalKey(body[r])] = NumberToString(totalNoOfLines[r])

\* C19: two validated requests that differ in url, page, limit or filter,
\* a request without a filter differing from one with any filter string,
\* have different page keys, and no page key is the total-line key of a
\* request.
C19_KeysCollisionFree ==
    \A r, q \in Reqs :
        /\ pc[r] # "idle" /\ ValidationError(body[r]) = ""
        /\ pc[q] # "idle" /\ ValidationError(body[q]) = ""
        => /\ Dims(body[r]) # Dims(body[q]) =>
                    ResponseKey(body[r]) # ResponseKey(body[q])
           /\ ResponseKey(body[r]) # TotalKey(body[q])

\* the keys of the store that hold a page: the text of a JSON object
PageKeys(store) == {k \in DOMAIN store : store[k].text = "json"}

\* C20: only successes are cached as pages.  Every page entry of the store
\* is a PageResult with at least one record, the first with every mandatory
\* header; a page entry is written only by the step in which a request
\* returns its 200, under the key of that request, and is the body of that
\* response; and the step in which a request returns 400, 404 or 500 leaves
\* every page entry as it was and adds none.
C20_OnlySuccessesCached ==
    /\ [](\A k \in PageKeys(cache) :
            /\ DOMAIN cache[k].value = {"results", "pageCount"}
            /\ cache[k].value.results # <<>>
            /\ MANDATORY_HEADERS \subseteq DOMAIN cache[k].value.results[1])
    /\ [][/\ \A k \in PageKeys(cache') :
                k \notin DOMAIN cache \/ cache'[k] # cache[k] =>
                    \E r \in Reqs :
                        /\ pc[r] = "setPage" /\ pc'[r] = "done"
                        /\ response'[r].status = 200
                        /\ k = ResponseKey(body[r])
                        /\ cache'[k] = JSONStringify(response'[r].body)
          /\ \A r \in Reqs :
                pc[r] # "done" /\ pc'[r] = "done" /\ response'[r].status # 200 =>
                    /\ PageKeys(cache') = PageKeys(cache)
                    /\ \A k \in PageKeys(cache) : cache'[k] = cache[k]
         ]_vars

\* a request was answered 400 for the missing header, its page key is not
\* in the store, and the page of an earlier request is
C20_Witness ==
    \E r \in Reqs :
        /\ Rejected(r, 400, "Mandatory headers are missing")
        /\ ResponseKey(body[r]) \notin DOMAIN cache
        /\ PageKeys(cache) # {}

====
